---- MODULE Spec2Model ----
(***************************************************************************)
(* depthmap_to_3d_mesh (src/depthmap2stl/core.py) as a state machine.      *)
(*                                                                         *)
(* One call of the function is one behaviour: pc walks through the stages  *)
(* of the function body in source order.  Arrays are 0-based in the code;  *)
(* TLA+ sequences are 1-based, so buffer index k of the code is element    *)
(* k+1 of the sequence (operator At).  Face triples keep the code's        *)
(* 0-based vertex indices.                                                 *)
(*                                                                         *)
(* Numbers are exact rationals kept as integers in fixed units:            *)
(*   samples  : numerator p of p/255 (line 24), p in 0..255                *)
(*   z        : units of 1/255 mm, so z_mm = z / ZScale                    *)
(*   x        : units of 1/(W-1) mm  (np.linspace(0, width, W))            *)
(*   y        : units of 1/(W*(H-1)) mm (np.linspace(0, H/W*width, H))     *)
(* Each axis has its own positive unit, which leaves the sign of every     *)
(* component of a cross product unchanged.                                 *)
(***************************************************************************)
EXTENDS Integers, Sequences, FiniteSets

\* ---------------------------------------------------------------- bounds
MaxH == 3

MaxW == 3

MaxRes == 3

\* 255.0 of line 24: a sample is p/255, a z value is kept as z*255
ZScale == 255

Levels == {0, 102, 255}

\* the two tones of a patterned image
TonePairs == {<<255, 0>>, <<0, 255>>}

Widths == {10}

Depths == {2, 5}

Bases == {0, 1}

\* ---------------------------------------------------------------- values
NoGrid == << >>

NoMesh == [vertices |-> << >>, faces |-> << >>, built |-> FALSE]

NoFile == [written |-> FALSE]

NoError == [kind |-> "none", line |-> 0]

\* the mesh_resolution argument: None, an int, a 2-tuple, a 3-tuple, a float
Resolutions ==
  {[kind |-> "none"]}
    \cup {[kind |-> "int", w |-> w] : w \in 1..MaxRes}
    \cup {[kind |-> "tuple", w |-> w, h |-> h] : w \in 1..MaxRes, h \in 1..MaxRes}
    \cup {[kind |-> "tuple3"], [kind |-> "float"]}

Rows(g) == Len(g)

Cols(g) == IF Len(g) = 0 THEN 0 ELSE Len(g[1])

\* element k (0-based, as in the code) of a buffer
At(buf, k) == buf[k + 1]

\* what the loader (PIL) can deliver for a given shape: grey levels in a
\* constant, checker, first-row or first-column pattern
Images(h, w) ==
  {[i \in 1..h |-> [j \in 1..w |-> a]] : a \in Levels}
    \cup {[i \in 1..h |-> [j \in 1..w |-> IF (i + j) % 2 = 0 THEN ab[1] ELSE ab[2]]] :
            ab \in TonePairs}
    \cup {[i \in 1..h |-> [j \in 1..w |-> IF i = 1 THEN ab[1] ELSE ab[2]]] :
            ab \in TonePairs}
    \cup {[i \in 1..h |-> [j \in 1..w |-> IF j = 1 THEN ab[1] ELSE ab[2]]] :
            ab \in TonePairs}

GridValues(g) == {g[i][j] : i \in 1..Rows(g), j \in 1..Cols(g)}

SetMin(S) == CHOOSE m \in S : \A x \in S : m <= x

SetMax(S) == CHOOSE m \in S : \A x \in S : m >= x

\* ---------------------------------------------------------------- pure parts
\* round() replaced by rounding up
PyRound_Ceiling(num, den) == (num + den - 1) \div den

\* Python round() of the non-negative rational num/den: nearest, ties to even
PyRound(num, den) ==
  LET q == num \div den
      r == num % den
  IN IF 2 * r < den THEN q
     ELSE IF 2 * r > den THEN q + 1
     ELSE IF q % 2 = 0 THEN q ELSE q + 1

\* the else branch of line 35 missing: any other value passes as a no-op size
ResolveResolution_NoElse(res, h, w) ==
  IF res.kind = "int"
    THEN [ok |-> TRUE, width_res |-> res.w, height_res |-> PyRound(res.w * h, w), line |-> 0]
  ELSE IF res.kind = "tuple"
    THEN [ok |-> TRUE, width_res |-> res.w, height_res |-> res.h, line |-> 0]
  ELSE [ok |-> TRUE, width_res |-> w, height_res |-> h, line |-> 0]

\* lines 27-36: the target size, or the ValueError raised
ResolveResolution(res, h, w) ==
  IF res.kind = "int"
    THEN [ok |-> TRUE, width_res |-> res.w, height_res |-> PyRound(res.w * h, w), line |-> 0]
  ELSE IF res.kind = "tuple"
    THEN [ok |-> TRUE, width_res |-> res.w, height_res |-> res.h, line |-> 0]
  ELSE IF res.kind = "tuple3"
    THEN [ok |-> FALSE, width_res |-> 0, height_res |-> 0, line |-> 34]
  ELSE [ok |-> FALSE, width_res |-> 0, height_res |-> 0, line |-> 36]

\* line 38: img.resize((width_res, height_res), BILINEAR) of the external
\* imaging library: a grid of the requested shape whose samples stay within
\* the range of the source samples
Resized(g, width_res, height_res) ==
  {r \in Images(height_res, width_res) :
     \A v \in GridValues(r) :
        SetMin(GridValues(g)) <= v /\ v <= SetMax(GridValues(g))}

\* the flip of line 42 left out
Flipud_Identity(g) == g

\* line 42: np.flipud
Flipud(g) == [i \in 1..Rows(g) |-> g[Rows(g) + 1 - i]]

\* white carved instead of black
HeightOf_Inverted(p, d) == -d * p

\* line 47: -depth * (1.0 - v) for the sample v = p/255, in units of 1/255
HeightOf(p, d) == -d * (ZScale - p)

\* lines 50-60: np.meshgrid + ravel + column_stack, row-major
GridVertices(zz, wd) ==
  LET h == Rows(zz)
      w == Cols(zz)
  IN [k \in 1..(h * w) |->
        LET i == (k - 1) \div w
            j == (k - 1) % w
        IN << j * wd, i * h * wd, zz[i + 1][j + 1] >>]

\* lines 63-72: two triangles per grid square
TopFaces(h, w) ==
  IF h < 2 \/ w < 2 THEN << >>
  ELSE [k \in 1..(2 * (h - 1) * (w - 1)) |->
          LET c == (k - 1) \div 2
              i == c \div (w - 1)
              j == c % (w - 1)
              idx == i * w + j
              idx_right == idx + 1
              idx_down == idx + w
              idx_down_right == idx_down + 1
          IN IF (k - 1) % 2 = 0
               THEN << idx, idx_down, idx_right >>
               ELSE << idx_right, idx_down, idx_down_right >>]

\* the base thickness left out of the bottom level
BottomZ_NoBase(d, b) == -d * ZScale

\* line 76
BottomZ(d, b) == -(d + b) * ZScale

\* line 77: the top grid's x, y with z = bottom_z
BottomVertices(vs, bz) == [k \in 1..Len(vs) |-> << vs[k][1], vs[k][2], bz >>]

\* lines 86-100: left and right walls, four triangles per row step
LeftRightFaces(h, w, num_vertices) ==
  IF h < 2 THEN << >>
  ELSE [k \in 1..(4 * (h - 1)) |->
          LET i == (k - 1) \div 4
              t == (k - 1) % 4
              idx_top == IF t < 2 THEN i * w ELSE i * w + (w - 1)
              idx_bottom == num_vertices + idx_top
              idx_top_next == idx_top + w
              idx_bottom_next == idx_bottom + w
          IN CASE t = 0 -> << idx_top, idx_bottom, idx_bottom_next >>
               [] t = 1 -> << idx_top, idx_bottom_next, idx_top_next >>
               [] t = 2 -> << idx_top, idx_bottom_next, idx_bottom >>
               [] t = 3 -> << idx_top, idx_top_next, idx_bottom_next >>]

\* lines 103-117: front and back walls, four triangles per column step
FrontBackFaces(h, w, num_vertices) ==
  IF w < 2 THEN << >>
  ELSE [k \in 1..(4 * (w - 1)) |->
          LET j == (k - 1) \div 4
              t == (k - 1) % 4
              idx_top == IF t < 2 THEN j ELSE (h - 1) * w + j
              idx_bottom == num_vertices + idx_top
              idx_top_next == idx_top + 1
              idx_bottom_next == idx_bottom + 1
          IN CASE t = 0 -> << idx_top, idx_bottom, idx_bottom_next >>
               [] t = 1 -> << idx_top, idx_bottom_next, idx_top_next >>
               [] t = 2 -> << idx_top, idx_bottom_next, idx_bottom >>
               [] t = 3 -> << idx_top, idx_top_next, idx_bottom_next >>]

\* the front/back loop one step short: range(width_px - 2)
SideFaces_ShortLoop(h, w, num_vertices) ==
  LeftRightFaces(h, w, num_vertices)
    \o SubSeq(FrontBackFaces(h, w, num_vertices), 1, 4 * (w - 1) - 4)

\* lines 84-117
SideFaces(h, w, num_vertices) ==
  LeftRightFaces(h, w, num_vertices) \o FrontBackFaces(h, w, num_vertices)

\* the second triangle of each bottom square forgotten
BottomFaces_OneTriangle(h, w, num_vertices) ==
  IF h < 2 \/ w < 2 THEN << >>
  ELSE [k \in 1..((h - 1) * (w - 1)) |->
          LET i == (k - 1) \div (w - 1)
              j == (k - 1) % (w - 1)
              idx == num_vertices + i * w + j
          IN << idx, idx + w, idx + 1 >>]

\* lines 120-128
BottomFaces(h, w, num_vertices) ==
  IF h < 2 \/ w < 2 THEN << >>
  ELSE [k \in 1..(2 * (h - 1) * (w - 1)) |->
          LET c == (k - 1) \div 2
              i == c \div (w - 1)
              j == c % (w - 1)
              idx == num_vertices + i * w + j
              idx_right == idx + 1
              idx_down == idx + w
              idx_down_right == idx_down + 1
          IN IF (k - 1) % 2 = 0
               THEN << idx, idx_down, idx_right >>
               ELSE << idx_right, idx_down, idx_down_right >>]

\* line 131: np.vstack of three Python lists.  An empty list becomes an array
\* of shape (1, 0); it stacks only with other empty lists.
VstackOk(a, b, c) ==
  \/ Len(a) = 0 /\ Len(b) = 0 /\ Len(c) = 0
  \/ Len(a) > 0 /\ Len(b) > 0 /\ Len(c) > 0

\* line 137: vertices[:, 2] -= base_thickness
ShiftZ(v, b) == << v[1], v[2], v[3] - b * ZScale >>

\* ---------------------------------------------------------------- state
VARIABLES pc, mesh_resolution, width, depth, base_thickness, img,
          normalized_depthmap, heights, vertices, faces, all_vertices,
          num_vertices, side_faces, bottom_faces, all_faces, mesh, stl, err

vars == << pc, mesh_resolution, width, depth, base_thickness, img,
           normalized_depthmap, heights, vertices, faces, all_vertices,
           num_vertices, side_faces, bottom_faces, all_faces, mesh, stl, err >>

args == << mesh_resolution, width, depth, base_thickness >>

\* the shape read at line 50
height_px == Rows(normalized_depthmap)

width_px == Cols(normalized_depthmap)

\* the call: the arguments are bound, nothing has run
Init ==
  /\ pc = "start"
  /\ mesh_resolution \in Resolutions
  /\ width \in Widths
  /\ depth \in Depths
  /\ base_thickness \in Bases
  /\ img = NoGrid
  /\ normalized_depthmap = NoGrid
  /\ heights = NoGrid
  /\ vertices = << >>
  /\ faces = << >>
  /\ all_vertices = << >>
  /\ num_vertices = 0
  /\ side_faces = << >>
  /\ bottom_faces = << >>
  /\ all_faces = << >>
  /\ mesh = NoMesh
  /\ stl = NoFile
  /\ err = NoError

\* lines 19-24
Load ==
  /\ pc = "start"
  /\ \E h \in 1..MaxH, w \in 1..MaxW : \E g \in Images(h, w) :
       /\ img' = g
       /\ normalized_depthmap' = g
  /\ pc' = "loaded"
  /\ UNCHANGED << args, heights, vertices, faces, all_vertices, num_vertices,
                  side_faces, bottom_faces, all_faces, mesh, stl, err >>

\* lines 26-39
Resample ==
  /\ pc = "loaded"
  /\ LET r == ResolveResolution(mesh_resolution, Rows(img), Cols(img))
     IN IF mesh_resolution.kind = "none"
          THEN /\ pc' = "resampled"
               /\ UNCHANGED << normalized_depthmap, err >>
        ELSE IF ~r.ok
          THEN /\ pc' = "failed"
               /\ err' = [kind |-> "ValueError", line |-> r.line]
               /\ UNCHANGED normalized_depthmap
        ELSE IF r.width_res < 1 \/ r.height_res < 1
          THEN \* the imaging library rejects an empty target size
               /\ pc' = "failed"
               /\ err' = [kind |-> "ValueError", line |-> 38]
               /\ UNCHANGED normalized_depthmap
        ELSE /\ normalized_depthmap' \in Resized(img, r.width_res, r.height_res)
             /\ pc' = "resampled"
             /\ UNCHANGED err
  /\ UNCHANGED << args, img, heights, vertices, faces, all_vertices, num_vertices,
                  side_faces, bottom_faces, all_faces, mesh, stl >>

\* lines 41-47
FlipAndHeights ==
  /\ pc = "resampled"
  /\ normalized_depthmap' = Flipud(normalized_depthmap)
  /\ heights' = [i \in 1..height_px |-> [j \in 1..width_px |->
                   HeightOf(Flipud(normalized_depthmap)[i][j], depth)]]
  /\ pc' = "heights"
  /\ UNCHANGED << args, img, vertices, faces, all_vertices, num_vertices,
                  side_faces, bottom_faces, all_faces, mesh, stl, err >>

\* lines 49-60
MakeVertices ==
  /\ pc = "heights"
  /\ vertices' = GridVertices(heights, width)
  /\ pc' = "vertices"
  /\ UNCHANGED << args, img, normalized_depthmap, heights, faces, all_vertices,
                  num_vertices, side_faces, bottom_faces, all_faces, mesh, stl, err >>

\* lines 62-72
TopSurface ==
  /\ pc = "vertices"
  /\ faces' = TopFaces(height_px, width_px)
  /\ pc' = "top"
  /\ UNCHANGED << args, img, normalized_depthmap, heights, vertices, all_vertices,
                  num_vertices, side_faces, bottom_faces, all_faces, mesh, stl, err >>

\* lines 74-81
BottomSurfaceVertices ==
  /\ pc = "top"
  /\ all_vertices' = vertices \o BottomVertices(vertices, BottomZ(depth, base_thickness))
  /\ num_vertices' = Len(vertices)
  /\ pc' = "bottom_vertices"
  /\ UNCHANGED << args, img, normalized_depthmap, heights, vertices, faces,
                  side_faces, bottom_faces, all_faces, mesh, stl, err >>

\* lines 83-117
SideWalls ==
  /\ pc = "bottom_vertices"
  /\ side_faces' = SideFaces(height_px, width_px, num_vertices)
  /\ pc' = "walls"
  /\ UNCHANGED << args, img, normalized_depthmap, heights, vertices, faces,
                  all_vertices, num_vertices, bottom_faces, all_faces, mesh, stl, err >>

\* lines 119-128
BottomFace ==
  /\ pc = "walls"
  /\ bottom_faces' = BottomFaces(height_px, width_px, num_vertices)
  /\ pc' = "bottom"
  /\ UNCHANGED << args, img, normalized_depthmap, heights, vertices, faces,
                  all_vertices, num_vertices, side_faces, all_faces, mesh, stl, err >>

\* lines 130-131
CombineFaces ==
  /\ pc = "bottom"
  /\ IF VstackOk(faces, side_faces, bottom_faces)
       THEN /\ all_faces' = faces \o side_faces \o bottom_faces
            /\ pc' = "combined"
            /\ UNCHANGED err
       ELSE /\ pc' = "failed"
            /\ err' = [kind |-> "ValueError", line |-> 131]
            /\ UNCHANGED all_faces
  /\ UNCHANGED << args, img, normalized_depthmap, heights, vertices, faces,
                  all_vertices, num_vertices, side_faces, bottom_faces, mesh, stl >>

\* lines 133-134: the mesh object holds the two buffers as built here; any
\* processing the mesh library applies to them on its own is not code of
\* this function.  What the library does with an empty face array (the 1x1
\* grid) is not fixed by this code: it may build the mesh or raise.
CreateMesh ==
  /\ pc = "combined"
  /\ \/ /\ mesh' = [vertices |-> all_vertices, faces |-> all_faces, built |-> TRUE]
        /\ pc' = "mesh"
        /\ UNCHANGED err
     \/ /\ Len(all_faces) = 0
        /\ pc' = "failed"
        /\ err' = [kind |-> "LibraryError", line |-> 134]
        /\ UNCHANGED mesh
  /\ UNCHANGED << args, img, normalized_depthmap, heights, vertices, faces,
                  all_vertices, num_vertices, side_faces, bottom_faces, all_faces,
                  stl >>

\* lines 136-137
ShiftMesh ==
  /\ pc = "mesh"
  /\ mesh' = [mesh EXCEPT !.vertices =
                [k \in 1..Len(mesh.vertices) |-> ShiftZ(mesh.vertices[k], base_thickness)]]
  /\ pc' = "shifted"
  /\ UNCHANGED << args, img, normalized_depthmap, heights, vertices, faces,
                  all_vertices, num_vertices, side_faces, bottom_faces, all_faces,
                  stl, err >>

\* lines 139-140
Export ==
  /\ pc = "shifted"
  /\ stl' = [written |-> TRUE, vertices |-> mesh.vertices, faces |-> mesh.faces]
  /\ pc' = "done"
  /\ UNCHANGED << args, img, normalized_depthmap, heights, vertices, faces,
                  all_vertices, num_vertices, side_faces, bottom_faces, all_faces,
                  mesh, err >>

Next ==
  \/ Load
  \/ Resample
  \/ FlipAndHeights
  \/ MakeVertices
  \/ TopSurface
  \/ BottomSurfaceVertices
  \/ SideWalls
  \/ BottomFace
  \/ CombineFaces
  \/ CreateMesh
  \/ ShiftMesh
  \/ Export

Spec == Init /\ [][Next]_vars

\* the calls that leave mesh_resolution unset: the grid is the image's
InitDirect == Init /\ mesh_resolution = [kind |-> "none"]

SpecDirect == InitDirect /\ [][Next]_vars

\* ---------------------------------------------------------------- measures
\* the resampling stage is behind: the grid used for meshing is fixed
PastResample ==
  \/ pc \in {"resampled", "heights", "vertices", "top", "bottom_vertices", "walls",
             "bottom", "combined", "mesh", "shifted", "done"}
  \/ pc = "failed" /\ err.line > 38

\* the final assembly, z-shift included, is behind
Assembled == pc \in {"shifted", "done"}

TooSmall == height_px < 2 \/ width_px < 2

Corners(f) == {f[1], f[2], f[3]}

\* number of triangles of fs that have the undirected edge {a, b}
EdgeCount(fs, a, b) == Cardinality({k \in 1..Len(fs) : {a, b} \subseteq Corners(fs[k])})

\* components of (p1 - p0) x (p2 - p0) for the triangle f over the buffer vs
NormalX(vs, f) ==
  LET p0 == At(vs, f[1])
      p1 == At(vs, f[2])
      p2 == At(vs, f[3])
  IN (p1[2] - p0[2]) * (p2[3] - p0[3]) - (p1[3] - p0[3]) * (p2[2] - p0[2])

NormalY(vs, f) ==
  LET p0 == At(vs, f[1])
      p1 == At(vs, f[2])
      p2 == At(vs, f[3])
  IN (p1[3] - p0[3]) * (p2[1] - p0[1]) - (p1[1] - p0[1]) * (p2[3] - p0[3])

NormalZ(vs, f) ==
  LET p0 == At(vs, f[1])
      p1 == At(vs, f[2])
      p2 == At(vs, f[3])
  IN (p1[1] - p0[1]) * (p2[2] - p0[2]) - (p1[2] - p0[2]) * (p2[1] - p0[1])

\* g is f with every index raised by n and the winding reversed
ReversedOver(g, f, n) ==
  \/ g = << f[1] + n, f[3] + n, f[2] + n >>
  \/ g = << f[3] + n, f[2] + n, f[1] + n >>
  \/ g = << f[2] + n, f[1] + n, f[3] + n >>

\* column and row of a vertex index of either grid
ColOf(k) == (k % num_vertices) % width_px

RowOf(k) == (k % num_vertices) \div width_px

\* a wall triangle stands over top grid points that lie above the bottom
TopAboveBottom(f) ==
  \A k \in Corners(f) :
     At(all_vertices, k % num_vertices)[3]
        > At(all_vertices, num_vertices + (k % num_vertices))[3]

\* z of buffer index k of the finished mesh, in units of 1/255 mm
FinalZ(k) == At(mesh.vertices, k)[3]

\* the 2x2 grids of the two scenarios, rows as the loader delivers them
AllWhite2x2 == << <<255, 255>>, <<255, 255>> >>

Checker2x2 == << <<255, 0>>, <<0, 255>> >>

\* ---------------------------------------------------------------- claims

\* C1: for H, W >= 2 every undirected edge of the concatenated face buffer
\* lies in exactly two triangles (no boundary edge, no edge shared by three
\* or more), every triangle having three distinct vertices of the 2*H*W.
C1_ClosedManifold ==
  (pc = "combined" /\ ~TooSmall) =>
     /\ \A k \in 1..Len(all_faces) :
           /\ Corners(all_faces[k]) \subseteq 0..(2 * num_vertices - 1)
           /\ Cardinality(Corners(all_faces[k])) = 3
     /\ \A k \in 1..Len(all_faces) :
           LET f == all_faces[k]
           IN /\ EdgeCount(all_faces, f[1], f[2]) = 2
              /\ EdgeCount(all_faces, f[2], f[3]) = 2
              /\ EdgeCount(all_faces, f[3], f[1]) = 2

C1_Witness == pc = "combined" /\ height_px = 3 /\ width_px = 3

\* C2 as stated: 2*H*W vertices and 2*2*(H-1)*(W-1) top + 2*2*(H-1)*(W-1)
\* bottom + 2*2*((H-1)+(W-1)) wall faces in the produced mesh.
C2_CountsAsStated ==
  mesh.built =>
     /\ Len(mesh.vertices) = 2 * height_px * width_px
     /\ Len(mesh.faces) = 2 * 2 * (height_px - 1) * (width_px - 1)
                            + 2 * 2 * (height_px - 1) * (width_px - 1)
                            + 2 * 2 * ((height_px - 1) + (width_px - 1))

\* C2 amended: the assembled buffers hold 2*H*W vertices and 2*(H-1)*(W-1)
\* top + 2*(H-1)*(W-1) bottom + 2*2*((H-1)+(W-1)) wall faces, and the
\* exported mesh holds the same.
C2_Counts ==
  /\ mesh.built =>
        /\ Len(mesh.vertices) = 2 * height_px * width_px
        /\ Len(faces) = 2 * (height_px - 1) * (width_px - 1)
        /\ Len(bottom_faces) = 2 * (height_px - 1) * (width_px - 1)
        /\ Len(side_faces) = 2 * 2 * ((height_px - 1) + (width_px - 1))
        /\ Len(mesh.faces) = Len(faces) + Len(bottom_faces) + Len(side_faces)
  /\ stl.written =>
        /\ Len(stl.vertices) = 2 * height_px * width_px
        /\ Len(stl.faces) = 2 * (height_px - 1) * (width_px - 1)
                              + 2 * (height_px - 1) * (width_px - 1)
                              + 2 * 2 * ((height_px - 1) + (width_px - 1))

C2_Witness == stl.written /\ height_px = 2 /\ width_px = 3 /\ Len(stl.faces) = 20

\* C3 as stated: after final assembly every bottom vertex (indices N..2N-1)
\* is at z = -(depth + baseThickness) and every top vertex of a sample-1.0
\* cell at z = -baseThickness; the 2x2 all-white grid with depth 5 and base
\* 1 has its top at -1 and its bottom at -6.
C3_BottomLevelAsStated ==
  Assembled =>
     /\ \A k \in num_vertices..(2 * num_vertices - 1) :
           FinalZ(k) = -(depth + base_thickness) * ZScale
     /\ \A i \in 0..(height_px - 1), j \in 0..(width_px - 1) :
           normalized_depthmap[i + 1][j + 1] = 255 =>
              FinalZ(i * width_px + j) = -base_thickness * ZScale
     /\ (normalized_depthmap = AllWhite2x2 /\ depth = 5 /\ base_thickness = 1) =>
           /\ \A k \in 0..3 : FinalZ(k) = -1 * ZScale
           /\ \A k \in 4..7 : FinalZ(k) = -6 * ZScale

\* C3 amended: after final assembly every bottom vertex is at
\* z = -(depth + 2*baseThickness), the shift moving the bottom too, and
\* every top vertex of a sample-1.0 cell at z = -baseThickness; the 2x2
\* all-white grid with depth 5 and base 1 has its top at -1 and its bottom
\* at -7.
C3_BottomLevelShifted ==
  Assembled =>
     /\ \A k \in num_vertices..(2 * num_vertices - 1) :
           FinalZ(k) = -(depth + 2 * base_thickness) * ZScale
     /\ \A i \in 0..(height_px - 1), j \in 0..(width_px - 1) :
           normalized_depthmap[i + 1][j + 1] = 255 =>
              FinalZ(i * width_px + j) = -base_thickness * ZScale
     /\ (normalized_depthmap = AllWhite2x2 /\ depth = 5 /\ base_thickness = 1) =>
           /\ \A k \in 0..3 : FinalZ(k) = -1 * ZScale
           /\ \A k \in 4..7 : FinalZ(k) = -7 * ZScale

C3_Witness ==
  /\ pc = "done"
  /\ normalized_depthmap = AllWhite2x2
  /\ depth = 5
  /\ base_thickness = 1

\* C4 as stated: loader grid [[1,0],[0,1]], depth 5, base 1, no resampling:
\* final z of top vertices 0, 1, 2, 3 is -1, -6, -6, -1.
C4_CheckerAsStated ==
  (Assembled /\ img = Checker2x2 /\ mesh_resolution.kind = "none"
     /\ depth = 5 /\ base_thickness = 1) =>
     << FinalZ(0), FinalZ(1), FinalZ(2), FinalZ(3) >>
        = << -1 * ZScale, -6 * ZScale, -6 * ZScale, -1 * ZScale >>

\* C4 amended: for that input the final z of top vertices 0, 1, 2, 3 is
\* -6, -1, -1, -6: buffer row 0 is the image's last row.
C4_CheckerFlipped ==
  (Assembled /\ img = Checker2x2 /\ mesh_resolution.kind = "none"
     /\ depth = 5 /\ base_thickness = 1) =>
     << FinalZ(0), FinalZ(1), FinalZ(2), FinalZ(3) >>
        = << -6 * ZScale, -1 * ZScale, -1 * ZScale, -6 * ZScale >>

C4_Witness ==
  /\ pc = "done"
  /\ img = Checker2x2
  /\ mesh_resolution.kind = "none"
  /\ depth = 5
  /\ base_thickness = 1

\* C5: for H, W >= 2 every top triangle has a normal with positive z, and
\* every bottom triangle is the matching top triangle over the bottom grid
\* (indices + N) with reversed vertex order, its normal having negative z.
C5_TopBottomWinding ==
  (pc = "combined" /\ ~TooSmall) =>
     /\ \A k \in 1..Len(faces) : NormalZ(all_vertices, faces[k]) > 0
     /\ Len(bottom_faces) = Len(faces)
     /\ \A k \in 1..Len(bottom_faces) :
           /\ ReversedOver(bottom_faces[k], faces[k], num_vertices)
           /\ NormalZ(all_vertices, bottom_faces[k]) < 0

\* C6: for H, W >= 2 every wall triangle standing over top points above the
\* bottom has an outward normal: -x on the left wall (j = 0), +x on the
\* right (j = W-1), -y on the front (i = 0), +y on the back (i = H-1).
C6_WallNormals ==
  (pc = "combined" /\ ~TooSmall) =>
     \A k \in 1..Len(side_faces) :
        LET f == side_faces[k]
        IN TopAboveBottom(f) =>
             /\ (\A c \in Corners(f) : ColOf(c) = 0) => NormalX(all_vertices, f) < 0
             /\ (\A c \in Corners(f) : ColOf(c) = width_px - 1) => NormalX(all_vertices, f) > 0
             /\ (\A c \in Corners(f) : RowOf(c) = 0) => NormalY(all_vertices, f) < 0
             /\ (\A c \in Corners(f) : RowOf(c) = height_px - 1) => NormalY(all_vertices, f) > 0

\* C7: a resolution that is neither unset, an integer nor a (W', H') pair
\* makes the call fail with the configuration error, and no mesh is built
\* and no file written in that call.
C7_InvalidResolutionFails ==
  mesh_resolution.kind \notin {"none", "int", "tuple"} =>
     /\ ~mesh.built
     /\ ~stl.written
     /\ pc \in {"start", "loaded", "failed"}
     /\ pc = "failed" => err.kind = "ValueError" /\ err.line \in {34, 36}

C7_Witness ==
  /\ pc = "failed"
  /\ mesh_resolution.kind = "float"
  /\ err = [kind |-> "ValueError", line |-> 36]
  /\ ~stl.written

\* C8: whenever the grid used for meshing has H < 2 or W < 2 the call
\* signals InsufficientResolution and neither combines a face buffer,
\* builds a mesh nor exports one.
C8_InsufficientResolution ==
  (PastResample /\ TooSmall) =>
     /\ pc \notin {"combined", "mesh", "shifted", "done"}
     /\ ~mesh.built
     /\ ~stl.written
     /\ pc = "failed" => err.kind = "InsufficientResolution"

\* C9: the shape of the grid used for meshing: unset -> the input shape
\* (H, W); integer W' -> W' columns and the integer nearest to W' * H / W
\* rows; pair (W', H') -> exactly H' rows and W' columns.
C9_GridShape ==
  PastResample =>
     /\ mesh_resolution.kind = "none" =>
           height_px = Rows(img) /\ width_px = Cols(img)
     /\ mesh_resolution.kind = "int" =>
           /\ width_px = mesh_resolution.w
           /\ 2 * (height_px * Cols(img) - mesh_resolution.w * Rows(img)) <= Cols(img)
           /\ 2 * (mesh_resolution.w * Rows(img) - height_px * Cols(img)) <= Cols(img)
     /\ mesh_resolution.kind = "tuple" =>
           height_px = mesh_resolution.h /\ width_px = mesh_resolution.w

C9_Witness ==
  /\ pc = "resampled"
  /\ mesh_resolution.kind = "int"
  /\ (mesh_resolution.w * Rows(img)) % Cols(img) # 0
  /\ height_px # Rows(img)

\* C10: after final assembly the top vertex of every cell (i, j) is at
\* z = -depth * (1 - v) - baseThickness for its sample v, whatever the grid
\* size and the cell: v = 1.0 gives -baseThickness, v = 0.0 gives
\* -(depth + baseThickness).
C10_HeightMapping ==
  Assembled =>
     \A i \in 0..(height_px - 1), j \in 0..(width_px - 1) :
        LET p == normalized_depthmap[i + 1][j + 1]
            z == FinalZ(i * width_px + j)
        IN /\ z = -depth * (ZScale - p) - base_thickness * ZScale
           /\ p = 255 => z = -base_thickness * ZScale
           /\ p = 0 => z = -(depth + base_thickness) * ZScale

C10_Witness ==
  /\ pc = "done"
  /\ height_px >= 2
  /\ width_px >= 2
  /\ {0, 255} \subseteq GridValues(normalized_depthmap)
  /\ base_thickness > 0


====
